---- MODULE Spec2Model ----
(***************************************************************************)
(* Model of zbl's capture pipeline (src/zbl/src/capture.rs): struct        *)
(* Capture with its FrameArrived handler (the producer, running on the     *)
(* capture runtime's thread) and the caller's operations start, grab and   *)
(* stop.  The windows-rs objects (session, frame pool, capturable) are     *)
(* modelled by the state the code can observe of them.                     *)
(***************************************************************************)
EXTENDS Integers, Sequences, FiniteSets

\* ------------------------------------------------------------------ bounds
\* Frames the compositor produces in a run of Spec (every behaviour).
MaxFrames == 2
\* Frames the compositor produces in a run of SpecFifo (queue overflow).
MaxProduced == 34
\* Invocations of GraphicsCaptureSession::Close in a run.
MaxCloseCalls == 2
\* Frames the compositor produces in a run of SpecResize (resizing source).
MaxResized == 3

\* ------------------------------------------------------------------ program constants
\* sync_channel(1 << 5)
Capacity == 32

\* ------------------------------------------------------------------ values
\* D3D11_BOX values the capturable's get_client_box() reports (left, top, right, bottom).
Box(l, t, r, b) == [left |-> l, top |-> t, right |-> r, bottom |-> b]
Boxes == {Box(0, 0, 200, 150), Box(0, 0, 400, 300)}

\* SizeInt32 values: the capture item's size, and a frame's ContentSize().
Size(w, h) == [Width |-> w, Height |-> h]
Sizes == {Size(200, 150), Size(400, 300)}
\* SizeInt32::default()
DefaultSize == Size(0, 0)

\* Option<T>: None is the empty sequence, Some(x) is <<x>>.
None == <<>>
Some(x) == <<x>>

\* A Direct3D11CaptureFrame: seq stands for its SystemRelativeTime (the order
\* in which the compositor produced it), size is its ContentSize().
Frame(n, s) == [seq |-> n, size |-> s]

\* Places where grab() can fail with `?`, in program order; "none" is success.
FailPoints == {"none", "surface", "content_size", "create_item", "item_size",
               "client_box", "recreate", "staging_new", "as_resource", "cast", "map"}
\* The places inside the resize branch (recreate_frame_pool and StagingTexture::new).
ResizePoints == {"create_item", "item_size", "client_box", "recreate", "staging_new"}
\* Places where stop() can fail.
StopFailPoints == {"none", "session_close", "pool_close"}
\* Places where start() can fail.
StartFailPoints == {"none", "start_capture"}
\* Places where the FrameArrived handler can fail with `?`.
HandlerFailPoints == {"none", "next_frame", "relative_time"}

VARIABLES
    stopped,          \* Capture.stopped
    session,          \* Capture.session: "created", "started" or "closed"
    frame_pool,       \* Capture.frame_pool: [size, closed, taken (frames that
                      \* TryGetNextFrame has removed from it)]
    staging_texture,  \* Capture.staging_texture: Option<[width, height]>
    capture_box,      \* Capture.capture_box
    content_size,     \* Capture.content_size
    frame_source,     \* the sync_channel: [items, connected (sender alive)]
    done_signal,      \* Capture.capture_done_signal: [msgs, connected (sender alive)]
    srcBox,           \* what capturable.get_client_box() returns now
    srcSize,          \* what capture_item.Size() returns now; ContentSize of new frames
    nextSeq,          \* frames the compositor has produced so far
    cb,               \* the FrameArrived handler: [pc, frame]
    pc,               \* the caller's thread: "idle", or inside grab_next's loop
                      \* before its try_recv ("recv") or its poll of the signal ("poll")
    firedAtCall,      \* inside grab: whether the close notification was already
                      \* sent and unread when the call was made
    ret,              \* what the caller's last operation returned
    enqueued,         \* seq of the frames try_send accepted, in order
    dropped,          \* seq of the frames try_send refused
    consumed,         \* seq of the frames try_recv handed to grab_next, in order
    delivered,        \* what grab() returned as Ok(Some(..)), in order: the frame's
                      \* seq and the staging texture handed out
    closeCalls,       \* invocations of session.Close()
    stopCalls         \* the caller's own calls of Capture::stop

pipeline == <<stopped, session, frame_pool, staging_texture, capture_box, content_size>>
channels == <<frame_source, done_signal>>
source == <<srcBox, srcSize>>
caller == <<pc, firedAtCall>>
history == <<enqueued, dropped, consumed, delivered, closeCalls, stopCalls>>
vars == <<stopped, session, frame_pool, staging_texture, capture_box, content_size,
          frame_source, done_signal, srcBox, srcSize, nextSeq, cb, pc, firedAtCall, ret,
          enqueued, dropped, consumed, delivered, closeCalls, stopCalls>>

\* What an operation returned: op is the operation, val is "ok" (Ok(())),
\* "none" (Ok(None)), "frame" (Ok(Some(Frame))) or "err" (Err), at is the call
\* whose error it is: "start_capture", "session_close", "pool_close", or
\* "capture" for any failure of grab between dequeuing a frame and returning it.
Ret(op, val, at) == [op |-> op, val |-> val, at |-> at]
NoRet == Ret("new", "ok", "none")

\* ------------------------------------------------------------------ channels
\* try_send as a ring buffer would do it: a full queue evicts its oldest item.
try_send_evict(ch, item) ==
    IF Len(ch.items) >= Capacity
    THEN [ch |-> [ch EXCEPT !.items = Append(Tail(@), item)], res |-> "ok"]
    ELSE [ch |-> [ch EXCEPT !.items = Append(@, item)], res |-> "ok"]

\* try_send on an unbounded channel: never Full.
try_send_unbounded(ch, item) ==
    [ch |-> [ch EXCEPT !.items = Append(@, item)], res |-> "ok"]

\* SyncSender::try_send on the frame channel: Full keeps the queue as it is.
\* (TrySendError::Disconnected needs the Receiver dropped; the Receiver is a
\* field of Capture and lives as long as the pipeline does.)
try_send(ch, item) ==
    IF Len(ch.items) >= Capacity THEN [ch |-> ch, res |-> "full"]
    ELSE [ch |-> [ch EXCEPT !.items = Append(@, item)], res |-> "ok"]

\* try_recv handing out the newest item instead of the oldest.
try_recv_newest(ch) ==
    IF ch.items # <<>>
    THEN [ch |-> [ch EXCEPT !.items = SubSeq(@, 1, Len(@) - 1)], res |-> "item",
          item |-> ch.items[Len(ch.items)]]
    ELSE IF ch.connected THEN [ch |-> ch, res |-> "empty", item |-> None]
    ELSE [ch |-> ch, res |-> "disconnected", item |-> None]

\* Receiver::try_recv on the frame channel: the oldest item first; Disconnected
\* only once the buffer is empty and the sender is gone.
try_recv(ch) ==
    IF ch.items # <<>>
    THEN [ch |-> [ch EXCEPT !.items = Tail(@)], res |-> "item", item |-> Head(ch.items)]
    ELSE IF ch.connected THEN [ch |-> ch, res |-> "empty", item |-> None]
    ELSE [ch |-> ch, res |-> "disconnected", item |-> None]

\* Receiver::try_recv on the close notification channel.
done_try_recv(sig) ==
    IF sig.msgs > 0 THEN [sig |-> [sig EXCEPT !.msgs = @ - 1], res |-> "item"]
    ELSE IF sig.connected THEN [sig |-> sig, res |-> "empty"]
    ELSE [sig |-> sig, res |-> "disconnected"]

\* ------------------------------------------------------------------ construction
\* Capture::new: nothing started, no staging texture, default content size, the
\* clip box read once from the capturable, an empty queue of capacity 32.
Init ==
    /\ srcBox \in Boxes
    /\ srcSize \in Sizes
    /\ stopped = FALSE
    /\ session = "created"
    /\ frame_pool = [size |-> srcSize, closed |-> FALSE, taken |-> 0]
    /\ staging_texture = None
    /\ capture_box = srcBox
    /\ content_size = DefaultSize
    /\ frame_source = [items |-> <<>>, connected |-> TRUE]
    /\ done_signal = [msgs |-> 0, connected |-> TRUE]
    /\ nextSeq = 0
    /\ cb = [pc |-> "idle", frame |-> None]
    /\ pc = "idle"
    /\ firedAtCall = FALSE
    /\ ret = NoRet
    /\ enqueued = <<>>
    /\ dropped = <<>>
    /\ consumed = <<>>
    /\ delivered = <<>>
    /\ closeCalls = 0
    /\ stopCalls = 0

\* ------------------------------------------------------------------ the producer
\* A handler that also follows the source's size: it recreates the pool itself.
FrameArrived_resizes(max, failAt) ==
    /\ cb.pc = "idle"
    /\ frame_source.connected
    /\ session = "started"
    /\ ~frame_pool.closed
    /\ nextSeq < max
    /\ IF failAt = "next_frame"
       THEN UNCHANGED vars
       ELSE /\ nextSeq' = nextSeq + 1
            /\ cb' = IF failAt = "none"
                     THEN [pc |-> "send", frame |-> Some(Frame(nextSeq + 1, srcSize))]
                     ELSE cb
            /\ frame_pool' = [frame_pool EXCEPT !.taken = @ + 1, !.size = srcSize]
            /\ capture_box' = srcBox
            /\ UNCHANGED <<stopped, session, staging_texture, content_size,
                           channels, source, caller, ret, history>>

\* The capture runtime raises FrameArrived (only while the session captures and
\* the pool is open); the handler takes the frame out of the pool with
\* frame_pool.TryGetNextFrame()? and reads frame.SystemRelativeTime()?; failAt
\* is the call that fails.  A failing TryGetNextFrame takes no frame; after a
\* failing SystemRelativeTime the frame is out of the pool and released, and
\* the handler returns before try_send.
FrameArrived(max, failAt) ==
    /\ cb.pc = "idle"
    /\ frame_source.connected
    /\ session = "started"
    /\ ~frame_pool.closed
    /\ nextSeq < max
    /\ IF failAt = "next_frame"
       THEN UNCHANGED vars
       ELSE /\ nextSeq' = nextSeq + 1
            /\ cb' = IF failAt = "none"
                     THEN [pc |-> "send", frame |-> Some(Frame(nextSeq + 1, srcSize))]
                     ELSE cb
            /\ frame_pool' = [frame_pool EXCEPT !.taken = @ + 1]
            /\ UNCHANGED <<stopped, session, staging_texture, capture_box,
                           content_size, channels, source, caller, ret, history>>

\* The handler's sender.try_send(Some(frame)): a full queue drops the frame.
TrySend ==
    /\ cb.pc = "send"
    /\ LET r == try_send(frame_source, cb.frame)
           n == cb.frame[1].seq
       IN /\ frame_source' = r.ch
          /\ enqueued' = IF r.res = "ok" THEN Append(enqueued, n) ELSE enqueued
          /\ dropped' = IF r.res = "full" THEN Append(dropped, n) ELSE dropped
    /\ cb' = [pc |-> "idle", frame |-> None]
    /\ UNCHANGED <<pipeline, done_signal, source, nextSeq, caller, ret,
                   consumed, delivered, closeCalls, stopCalls>>

\* The capture runtime tears the subscription down: it releases the handler,
\* and with it the channel's only Sender (never while the handler runs).
SenderDrop ==
    /\ cb.pc = "idle"
    /\ frame_source.connected
    /\ frame_source' = [frame_source EXCEPT !.connected = FALSE]
    /\ UNCHANGED <<pipeline, done_signal, source, nextSeq, cb, caller, ret, history>>

\* ------------------------------------------------------------------ the capturable
\* The captured window is resized: new item size, new frames' content size.
SizeChange(s) ==
    /\ s # srcSize
    /\ srcSize' = s
    /\ UNCHANGED <<pipeline, channels, srcBox, nextSeq, cb, caller, ret, history>>

\* The capturable's client box changes.
BoxChange(b) ==
    /\ b # srcBox
    /\ srcBox' = b
    /\ UNCHANGED <<pipeline, channels, srcSize, nextSeq, cb, caller, ret, history>>

\* The capturable signals closure on its notification channel (one
\* notification, sent when none is waiting to be read).
SignalClose ==
    /\ done_signal.connected
    /\ done_signal.msgs = 0
    /\ done_signal' = [done_signal EXCEPT !.msgs = @ + 1]
    /\ UNCHANGED <<pipeline, frame_source, source, nextSeq, cb, caller, ret, history>>

\* The capturable drops the sending end of its notification channel.
SignalDrop ==
    /\ done_signal.connected
    /\ done_signal' = [done_signal EXCEPT !.connected = FALSE]
    /\ UNCHANGED <<pipeline, frame_source, source, nextSeq, cb, caller, ret, history>>

\* ------------------------------------------------------------------ start
\* start() written as a restart: it also clears the stopped flag.
Start_restart(failAt) ==
    /\ pc = "idle"
    /\ IF session = "closed" \/ failAt = "start_capture"
       THEN /\ ret' = Ret("start", "err", "start_capture")
            /\ UNCHANGED session
       ELSE /\ ret' = Ret("start", "ok", "none")
            /\ session' = "started"
    /\ stopped' = FALSE
    /\ UNCHANGED <<frame_pool, staging_texture, capture_box, content_size,
                   channels, source, nextSeq, cb, caller, history>>

\* Capture::start: session.StartCapture(); its error is returned and leaves the
\* session as it was; a closed session cannot be started.
Start(failAt) ==
    /\ pc = "idle"
    /\ IF session = "closed" \/ failAt = "start_capture"
       THEN /\ ret' = Ret("start", "err", "start_capture")
            /\ UNCHANGED session
       ELSE /\ ret' = Ret("start", "ok", "none")
            /\ session' = "started"
    /\ UNCHANGED <<stopped, frame_pool, staging_texture, capture_box, content_size,
                   channels, source, nextSeq, cb, caller, history>>

\* ------------------------------------------------------------------ stop
\* stop() that closes session and pool but forgets the flag.
stop_no_flag(failAt) ==
    /\ stopped' = stopped
    /\ closeCalls' = closeCalls + 1
    /\ session' = IF failAt = "session_close" THEN session ELSE "closed"
    /\ frame_pool' = IF failAt = "none" THEN [frame_pool EXCEPT !.closed = TRUE]
                     ELSE frame_pool

\* Capture::stop's effect on the pipeline: the flag first, then session.Close()?,
\* then frame_pool.Close()?; failAt is the call that fails.
stop(failAt) ==
    /\ stopped' = TRUE
    /\ closeCalls' = closeCalls + 1
    /\ session' = IF failAt = "session_close" THEN session ELSE "closed"
    /\ frame_pool' = IF failAt = "none" THEN [frame_pool EXCEPT !.closed = TRUE]
                     ELSE frame_pool

\* What stop() returns, as the result of the caller's op ("stop", or "grab" when
\* grab_next called it: Ok(false) becomes Ok(None)).
StopRet(op, failAt) ==
    IF failAt = "none" THEN Ret(op, IF op = "grab" THEN "none" ELSE "ok", "none")
    ELSE Ret(op, "err", failAt)

\* The caller calls Capture::stop.
Stop(failAt) ==
    /\ pc = "idle"
    /\ closeCalls < MaxCloseCalls
    /\ stop(failAt)
    /\ ret' = StopRet("stop", failAt)
    /\ stopCalls' = stopCalls + 1
    /\ UNCHANGED <<staging_texture, capture_box, content_size, channels, source,
                   nextSeq, cb, caller, enqueued, dropped, consumed, delivered>>

\* ------------------------------------------------------------------ grab
\* StagingTexture::new(device, right - left, bottom - top, format)
NewStaging(box) == [width |-> box.right - box.left, height |-> box.bottom - box.top]

\* A resize check that recreates pool and texture for every frame.
NeedsResize_always(f) == TRUE

\* The resize check of grab_next.
NeedsResize(f) ==
    \/ content_size.Width # f.size.Width
    \/ content_size.Height # f.size.Height
    \/ staging_texture = None

\* recreate_frame_pool that keeps the client box read at construction.
recreate_keep_box(failAt) ==
    LET boxRead == failAt \notin {"create_item", "item_size", "client_box"}
        recreated == boxRead /\ failAt # "recreate"
    IN [box |-> capture_box,
        pool |-> IF recreated THEN [frame_pool EXCEPT !.size = srcSize] ELSE frame_pool,
        ok |-> recreated]

\* Capture::recreate_frame_pool: the client box is re-read, then the pool is
\* recreated with the item's size; a failure leaves what was done before it.
recreate_frame_pool(failAt) ==
    LET boxRead == failAt \notin {"create_item", "item_size", "client_box"}
        recreated == boxRead /\ failAt # "recreate"
    IN [box |-> IF boxRead THEN srcBox ELSE capture_box,
        pool |-> IF recreated THEN [frame_pool EXCEPT !.size = srcSize] ELSE frame_pool,
        ok |-> recreated]

\* The resize and copy of grab_next, where any failure stops the pipeline.
Process_failstop(f, failAt) ==
    LET early == failAt \in {"surface", "content_size"}
        resize == ~early /\ NeedsResize(f)
        rp == recreate_frame_pool(failAt)
        newTex == resize /\ rp.ok /\ failAt # "staging_new"
        failed == failAt # "none" /\ (failAt \in ResizePoints => resize)
    IN /\ capture_box' = IF resize THEN rp.box ELSE capture_box
       /\ frame_pool' = IF resize THEN rp.pool ELSE frame_pool
       /\ staging_texture' = IF newTex THEN Some(NewStaging(capture_box'))
                             ELSE staging_texture
       /\ content_size' = IF newTex THEN f.size ELSE content_size
       /\ ret' = IF failed THEN Ret("grab", "err", "capture")
                 ELSE Ret("grab", "frame", "none")
       /\ delivered' = IF failed THEN delivered
                       ELSE Append(delivered, [seq |-> f.seq, tex |-> staging_texture'])
       /\ stopped' = failed
       /\ UNCHANGED <<session, closeCalls>>

\* grab_next from the dequeued frame on, and grab's mapping of the texture:
\* failAt is the call that fails; what was assigned before it stays assigned.
Process(f, failAt) ==
    LET early == failAt \in {"surface", "content_size"}
        resize == ~early /\ NeedsResize(f)
        rp == recreate_frame_pool(failAt)
        newTex == resize /\ rp.ok /\ failAt # "staging_new"
        failed == failAt # "none" /\ (failAt \in ResizePoints => resize)
    IN /\ capture_box' = IF resize THEN rp.box ELSE capture_box
       /\ frame_pool' = IF resize THEN rp.pool ELSE frame_pool
       /\ staging_texture' = IF newTex THEN Some(NewStaging(capture_box'))
                             ELSE staging_texture
       /\ content_size' = IF newTex THEN f.size ELSE content_size
       /\ ret' = IF failed THEN Ret("grab", "err", "capture")
                 ELSE Ret("grab", "frame", "none")
       /\ delivered' = IF failed THEN delivered
                       ELSE Append(delivered, [seq |-> f.seq, tex |-> staging_texture'])
       /\ UNCHANGED <<stopped, session, closeCalls>>

\* A grab without the check of the stopped flag on entry.
GrabCall_no_check ==
    /\ pc = "idle"
    /\ pc' = "recv"
    /\ firedAtCall' = (done_signal.msgs > 0)
    /\ UNCHANGED <<ret, pipeline, channels, source, nextSeq, cb, history>>

\* A grab that polls the closure channel on entry, before it reads the queue.
GrabCall_closure_first ==
    /\ pc = "idle"
    /\ IF stopped
       THEN /\ pc' = "idle"
            /\ ret' = Ret("grab", "none", "none")
            /\ UNCHANGED <<firedAtCall, pipeline, done_signal, closeCalls>>
       ELSE IF done_signal.msgs > 0
       THEN /\ done_signal' = done_try_recv(done_signal).sig
            /\ stop("none")
            /\ pc' = "idle"
            /\ ret' = Ret("grab", "none", "none")
            /\ UNCHANGED <<firedAtCall, staging_texture, capture_box, content_size>>
       ELSE /\ pc' = "recv"
            /\ firedAtCall' = (done_signal.msgs > 0)
            /\ UNCHANGED <<ret, pipeline, done_signal, closeCalls>>
    /\ UNCHANGED <<frame_source, source, nextSeq, cb, enqueued, dropped, consumed,
                   delivered, stopCalls>>

\* The caller calls Capture::grab; grab_next: `if self.stopped { return Ok(false) }`,
\* otherwise it enters the loop.
GrabCall ==
    /\ pc = "idle"
    /\ IF stopped
       THEN /\ pc' = "idle"
            /\ ret' = Ret("grab", "none", "none")
            /\ UNCHANGED firedAtCall
       ELSE /\ pc' = "recv"
            /\ firedAtCall' = (done_signal.msgs > 0)
            /\ UNCHANGED ret
    /\ UNCHANGED <<pipeline, channels, source, nextSeq, cb, history>>

\* A grab that puts the frame back at the head of the queue when processing
\* it failed, so that the next grab() retries the same frame.
GrabRecv_retry_same(failAt) ==
    /\ pc = "recv"
    /\ LET r == try_recv(frame_source)
       IN IF r.res = "item" /\ r.item # None
          THEN /\ Process(r.item[1], failAt)
               /\ frame_source' = IF ret'.val = "err" THEN frame_source ELSE r.ch
               /\ consumed' = Append(consumed, r.item[1].seq)
               /\ pc' = "idle"
               /\ firedAtCall' = FALSE
          ELSE /\ failAt = "none"
               /\ frame_source' = r.ch
               /\ IF r.res = "empty"
                  THEN /\ pc' = "poll"
                       /\ UNCHANGED <<ret, firedAtCall>>
                  ELSE /\ pc' = "idle"
                       /\ firedAtCall' = FALSE
                       /\ ret' = Ret("grab", "none", "none")
               /\ UNCHANGED <<pipeline, consumed, delivered, closeCalls>>
    /\ UNCHANGED <<done_signal, source, nextSeq, cb, enqueued, dropped, stopCalls>>

\* grab_next: one self.frame_source.try_recv() of the loop, and for a frame the
\* rest of grab.
GrabRecv(failAt) ==
    /\ pc = "recv"
    /\ LET r == try_recv(frame_source)
       IN /\ frame_source' = r.ch
          /\ IF r.res = "item" /\ r.item # None
             THEN /\ Process(r.item[1], failAt)
                  /\ consumed' = Append(consumed, r.item[1].seq)
                  /\ pc' = "idle"
                  /\ firedAtCall' = FALSE
             ELSE /\ failAt = "none"
                  /\ IF r.res = "empty"
                     THEN /\ pc' = "poll"
                          /\ UNCHANGED <<ret, firedAtCall>>
                     ELSE /\ pc' = "idle"
                          /\ firedAtCall' = FALSE
                          /\ ret' = Ret("grab", "none", "none")
                  /\ UNCHANGED <<pipeline, consumed, delivered, closeCalls>>
    /\ UNCHANGED <<done_signal, source, nextSeq, cb, enqueued, dropped, stopCalls>>

\* The poll of grab_next where a closure returns Ok(false) without stop().
GrabPoll_no_stop(failAt) ==
    /\ pc = "poll"
    /\ failAt = "none"
    /\ LET r == done_try_recv(done_signal)
       IN /\ done_signal' = r.sig
          /\ IF r.res \in {"item", "disconnected"}
             THEN /\ ret' = Ret("grab", "none", "none")
                  /\ pc' = "idle"
                  /\ firedAtCall' = FALSE
             ELSE /\ pc' = "recv"
                  /\ UNCHANGED <<ret, firedAtCall>>
    /\ UNCHANGED <<pipeline, frame_source, source, nextSeq, cb, history>>

\* The poll of grab_next in a grab that does not block: a silent channel
\* returns Ok(false) as well.
GrabPoll_nonblocking(failAt) ==
    /\ pc = "poll"
    /\ LET r == done_try_recv(done_signal)
       IN /\ done_signal' = r.sig
          /\ IF r.res \in {"item", "disconnected"}
             THEN /\ stop(failAt)
                  /\ ret' = StopRet("grab", failAt)
             ELSE /\ failAt = "none"
                  /\ ret' = Ret("grab", "none", "none")
                  /\ UNCHANGED <<stopped, session, frame_pool, closeCalls>>
    /\ pc' = "idle"
    /\ firedAtCall' = FALSE
    /\ UNCHANGED <<staging_texture, capture_box, content_size, frame_source, source,
                   nextSeq, cb, enqueued, dropped, consumed, delivered, stopCalls>>

\* The poll of grab_next that takes a disconnected closure channel for silence.
GrabPoll_ignore_disconnect(failAt) ==
    /\ pc = "poll"
    /\ LET r == done_try_recv(done_signal)
       IN /\ done_signal' = r.sig
          /\ IF r.res = "item"
             THEN /\ stop(failAt)
                  /\ ret' = StopRet("grab", failAt)
                  /\ pc' = "idle"
                  /\ firedAtCall' = FALSE
             ELSE /\ failAt = "none"
                  /\ pc' = "recv"
                  /\ UNCHANGED <<stopped, session, frame_pool, closeCalls, ret,
                                 firedAtCall>>
    /\ UNCHANGED <<staging_texture, capture_box, content_size, frame_source, source,
                   nextSeq, cb, enqueued, dropped, consumed, delivered, stopCalls>>

\* grab_next: the queue was empty, self.capture_done_signal.try_recv(); a
\* message or a disconnected channel stops the pipeline, otherwise loop.
GrabPoll(failAt) ==
    /\ pc = "poll"
    /\ LET r == done_try_recv(done_signal)
       IN /\ done_signal' = r.sig
          /\ IF r.res \in {"item", "disconnected"}
             THEN /\ stop(failAt)
                  /\ ret' = StopRet("grab", failAt)
                  /\ pc' = "idle"
                  /\ firedAtCall' = FALSE
             ELSE /\ failAt = "none"
                  /\ pc' = "recv"
                  /\ UNCHANGED <<stopped, session, frame_pool, closeCalls, ret,
                                 firedAtCall>>
    /\ UNCHANGED <<staging_texture, capture_box, content_size, frame_source, source,
                   nextSeq, cb, enqueued, dropped, consumed, delivered, stopCalls>>

\* ------------------------------------------------------------------ specifications
Produce == \E failAt \in HandlerFailPoints : FrameArrived(MaxFrames, failAt)
CallStart == \E failAt \in StartFailPoints : Start(failAt)
Resize == \E s \in Sizes : SizeChange(s)
Rebox == \E b \in Boxes : BoxChange(b)
CallStop == \E failAt \in StopFailPoints : Stop(failAt)
Recv == \E failAt \in FailPoints : GrabRecv(failAt)
Poll == \E failAt \in StopFailPoints : GrabPoll(failAt)

Next ==
    \/ Produce
    \/ TrySend
    \/ SenderDrop
    \/ Resize
    \/ Rebox
    \/ SignalClose
    \/ SignalDrop
    \/ CallStart
    \/ CallStop
    \/ GrabCall
    \/ Recv
    \/ Poll

Spec == Init /\ [][Next]_vars

\* The queue at its real capacity: the source keeps its size, nothing fails, the
\* caller starts and grabs, the compositor produces more frames than fit.
ProduceMany == FrameArrived(MaxProduced, "none")
StartOk == Start("none")
RecvOk == GrabRecv("none")
PollOk == GrabPoll("none")
StopOk == Stop("none")

NextFifo ==
    \/ ProduceMany
    \/ TrySend
    \/ StartOk
    \/ StopOk
    \/ GrabCall
    \/ RecvOk
    \/ PollOk

SpecFifo == Init /\ [][NextFifo]_vars

\* The resizing source: the window changes size and client box between frames,
\* any step of grab can fail, the caller starts and grabs and never stops, the
\* source is not closed.
ProduceResized == \E failAt \in HandlerFailPoints : FrameArrived(MaxResized, failAt)

NextResize ==
    \/ ProduceResized
    \/ TrySend
    \/ Resize
    \/ Rebox
    \/ CallStart
    \/ GrabCall
    \/ Recv
    \/ PollOk

SpecResize == Init /\ [][NextResize]_vars

\* ------------------------------------------------------------------ properties
\* The frames waiting in the queue, oldest first, by production number.
QueueSeqs == [i \in 1..Len(frame_source.items) |-> frame_source.items[i][1].seq]

\* The frames grab() has returned, by production number.
DeliveredSeqs == [i \in 1..Len(delivered) |-> delivered[i].seq]

\* The production numbers 1..n in order.
Upto(n) == [i \in 1..n |-> i]

\* A step in which a grab() call returns to the caller.
GrabReturns ==
    \/ pc # "idle" /\ pc' = "idle"
    \/ pc = "idle" /\ pc' = "idle" /\ ret'.op = "grab" /\ ret' # ret

\* C1: with no resize and no failing grab, the frames grab() has returned are
\* the frames the producer enqueued, each once and in the order of enqueuing:
\* the k frames returned so far are the first k enqueued, the others are still
\* in the queue in order, and no grab() on the running pipeline came back
\* without a frame.
C1_FifoDelivery ==
    /\ DeliveredSeqs = SubSeq(enqueued, 1, Len(delivered))
    /\ DeliveredSeqs \o QueueSeqs = enqueued
    /\ (ret.op = "grab" /\ ~stopped) => ret.val = "frame"

\* C1 witness: 32 frames were enqueued, none dropped, and 32 grabs returned them.
C1_Witness ==
    /\ Len(delivered) = 32
    /\ DeliveredSeqs = enqueued
    /\ dropped = <<>>
    /\ ret = Ret("grab", "frame", "none")

\* C2, the step: a try_send that finds 32 items leaves the queue as it is and
\* the arriving frame is dropped.
C2_DropStep ==
    (cb.pc = "send" /\ cb'.pc = "idle" /\ Len(frame_source.items) = 32)
        => /\ frame_source' = frame_source
           /\ dropped' = Append(dropped, cb.frame[1].seq)
           /\ enqueued' = enqueued

\* C2, the run: while nothing has been dequeued, more than 32 attempts leave
\* exactly frames 1..32 in the queue; frames are delivered in production order
\* and a dropped frame is neither queued nor ever delivered.
C2_Retained ==
    /\ (consumed = <<>> /\ Len(enqueued) + Len(dropped) > 32) => QueueSeqs = Upto(32)
    /\ \A i, j \in 1..Len(delivered) : i < j => delivered[i].seq < delivered[j].seq
    /\ \A i \in 1..Len(dropped) :
          /\ \A j \in 1..Len(delivered) : delivered[j].seq # dropped[i]
          /\ \A j \in 1..Len(QueueSeqs) : QueueSeqs[j] # dropped[i]

\* C2: a frame arriving at a queue of 32 is dropped and the queue unchanged; of
\* M > 32 attempts against a stalled consumer the first 32 are kept and later
\* delivered in order, the others never.
C2_Overflow == [][C2_DropStep]_vars /\ []C2_Retained

\* C2 witness: 34 attempts against a stalled consumer, frames 33 and 34 were
\* dropped, and 32 grabs then returned frames 1..32 in order.
C2_Witness ==
    /\ dropped = <<33, 34>>
    /\ DeliveredSeqs = Upto(32)
    /\ frame_source.items = <<>>

\* C3: the queue never holds more than 32 items.
C3_QueueBounded == Len(frame_source.items) <= 32

\* C3 witness: the queue holds 32 items and a further frame has been refused.
C3_Witness == Len(frame_source.items) = 32 /\ dropped # <<>>

\* The close notification had been sent, and not yet read, when the grab()
\* call that is running (or being made in this step) was made.
FiredBeforeCall == IF pc = "idle" THEN done_signal.msgs > 0 ELSE firedAtCall

GrabNone == Ret("grab", "none", "none")
CaptureErr == Ret("grab", "err", "capture")

\* No grab() can return a frame any more: the flag is set, or the queue is
\* empty and its sender gone.
Terminal ==
    \/ stopped
    \/ frame_source.items = <<>> /\ ~frame_source.connected

\* C4 as stated, on the calls that return no error and whose queue still has
\* its write end (a failing close and a queue without sender are left out, so
\* that what remains is the claim's plain case): a grab() called after the
\* closure signal fired returns "no frame" and leaves the pipeline Stopped, and
\* a grab() on the Stopped pipeline returns "no frame".
C4_Original ==
    /\ [][(GrabReturns /\ FiredBeforeCall /\ frame_source.connected /\ ret'.val # "err")
            => (ret' = GrabNone /\ stopped')]_vars
    /\ [][(GrabReturns /\ stopped) => ret' = GrabNone]_vars

\* C4 amended, the step: a grab() called after the closure signal fired, when it
\* returns without having dequeued a frame, returns "no frame" or the error of
\* a failed close; it leaves the flag set if it polled the signal, and
\* otherwise the queue empty and disconnected.
C4_ClosureStep ==
    (GrabReturns /\ FiredBeforeCall /\ ~(pc = "recv" /\ frame_source.items # <<>>))
        => /\ ret'.op = "grab"
           /\ \/ ret' = GrabNone
              \/ ret'.val = "err" /\ ret'.at \in {"session_close", "pool_close"}
           /\ pc = "poll" => stopped'
           /\ Terminal'

\* C4 amended, afterwards: that state is never left, and in it every grab()
\* returns "no frame" without error.
C4_TerminalStep ==
    Terminal => /\ Terminal'
                /\ (GrabReturns /\ pc = "idle") => ret' = GrabNone
                /\ (GrabReturns /\ pc = "recv") => ret' = GrabNone
                /\ pc = "recv" => pc' # "poll"

\* C4: after the closure signal has fired, the first grab() whose queue read
\* finds no frame returns "no frame" (or the error of a failed close) and
\* leaves the pipeline Stopped when the queue's write end still exists; every
\* later grab() returns "no frame" without error.
C4_ClosureEndsDelivery == [][C4_ClosureStep]_vars /\ [][C4_TerminalStep]_vars

\* C4 witness: the signal was read by grab's poll, which stopped the pipeline
\* (the caller never called stop(), the closure channel is still connected and
\* its notification has been consumed), after a frame had been delivered and
\* with a frame arriving afterwards; the last grab() returned "no frame".
C4_Witness ==
    /\ stopped
    /\ closeCalls = 1
    /\ stopCalls = 0
    /\ done_signal.msgs = 0
    /\ done_signal.connected
    /\ frame_source.items # <<>>
    /\ delivered # <<>>
    /\ ret = GrabNone

\* C5: once stop() has been called, no grab() returns a frame.
C5_NoFrameAfterStop ==
    [][closeCalls > 0 => (delivered' = delivered /\ (GrabReturns => ret'.val # "frame"))]_vars

\* C5 witness: stop() was called with a frame still queued, its session.Close()
\* failed so that start() keeps the session capturing, and a grab() after that
\* returned "no frame" with the frame still in the queue.
C5_Witness ==
    /\ closeCalls > 0
    /\ session = "started"
    /\ frame_source.items # <<>>
    /\ ret = GrabNone
    /\ done_signal = [msgs |-> 0, connected |-> TRUE]

\* C6: the stopped flag is false at construction and never goes back to false.
C6_StoppedMonotonic == (stopped = FALSE) /\ [][stopped => stopped']_vars

\* C6 witness: start() was called and succeeded on a pipeline whose flag is set.
C6_Witness == stopped /\ ret = Ret("start", "ok", "none") /\ session = "started"

\* C7: a grab() that returns a frame whose content size differs from the
\* remembered one returns a staging texture as wide and high as the clip box
\* the capturable reports at that time.
C7_ResizedTexture ==
    [][(/\ pc = "recv"
        /\ frame_source.items # <<>>
        /\ Head(frame_source.items) # None
        /\ Head(frame_source.items)[1].size # content_size
        /\ ret' = Ret("grab", "frame", "none")
        /\ Len(delivered') = Len(delivered) + 1)
       => /\ staging_texture' =
                Some([width |-> srcBox.right - srcBox.left,
                      height |-> srcBox.bottom - srcBox.top])
          /\ delivered'[Len(delivered')].tex = staging_texture']_vars

\* C7 witness: two grabs in a row returned frames, the first with a 200x150
\* staging texture, the second, after the source changed to clip (0,0,400,300)
\* and a new content size, with a 400x300 one.
C7_Witness ==
    /\ Len(delivered) >= 2
    /\ delivered[Len(delivered) - 1].tex = Some([width |-> 200, height |-> 150])
    /\ delivered[Len(delivered)].tex = Some([width |-> 400, height |-> 300])
    /\ Len(consumed) = Len(delivered)
    /\ capture_box = Box(0, 0, 400, 300)
    /\ content_size = Size(400, 300)
    /\ ret = Ret("grab", "frame", "none")

\* C8, the state: after a grab() that failed while processing a frame the flag
\* is false and session and pool are open (until another operation returns).
C8_StillStarted ==
    ret = CaptureErr => (~stopped /\ session # "closed" /\ ~frame_pool.closed)

\* C8, the step: a grab() that follows such a failure enters the loop that
\* reads the queue.
C8_RetryStep ==
    (pc = "idle" /\ ret = CaptureErr /\ (pc' # pc \/ ret' # ret) /\ ret'.op = "grab")
        => pc' = "recv"

\* C8: a grab() failing in steps 3-6 returns the error with the stopped flag
\* false, and a following grab() reads the queue again.
C8_ErrorKeepsStarted == []C8_StillStarted /\ [][C8_RetryStep]_vars

\* C8 witness: a grab() failed on a dequeued frame and the following grab() is
\* in the loop, about to read a queue that holds the next frame.
C8_Witness ==
    /\ ret = CaptureErr
    /\ pc = "recv"
    /\ Len(consumed) > Len(delivered)
    /\ frame_source.items # <<>>

\* C9 as stated: a grab() that reads the end-of-stream marker, or finds the
\* queue empty with its write end gone, sets the flag, closes session and pool
\* and returns "no frame".
C9_EndOfStreamStops ==
    [][(/\ pc = "recv"
        /\ pc' = "idle"
        /\ \/ frame_source.items = <<>>
           \/ Head(frame_source.items) = None)
       => /\ ret' = GrabNone
          /\ stopped'
          /\ session' = "closed"
          /\ frame_pool'.closed]_vars

\* The reasons for which a grab() call may return, on the state before the step.
ReturnReason ==
    \/ /\ pc = "recv"
       /\ frame_source.items # <<>>
       /\ Head(frame_source.items) # None
       /\ frame_source'.items = Tail(frame_source.items)
       /\ ret'.val \in {"frame", "err"}
    \/ pc = "idle" /\ stopped /\ ret' = GrabNone
    \/ /\ pc = "recv"
       /\ \/ frame_source.items = <<>> /\ ~frame_source.connected
          \/ frame_source.items # <<>> /\ Head(frame_source.items) = None
       /\ ret' = GrabNone
    \/ pc = "poll" /\ (done_signal.msgs > 0 \/ ~done_signal.connected)

\* grab() is inside its loop with nothing to return for.
MustWait ==
    /\ pc # "idle"
    /\ ~stopped
    /\ frame_source.items = <<>>
    /\ frame_source.connected
    /\ done_signal.msgs = 0
    /\ done_signal.connected

\* C10: grab() returns only when it dequeued a frame, the pipeline was already
\* Stopped, the stream ended or the closure channel fired or disconnected;
\* with the queue empty and connected and the closure channel silent and
\* connected it does not return.
C10_ReturnsOnlyWhen ==
    /\ [][GrabReturns => (ret'.op = "grab" /\ ReturnReason)]_vars
    /\ [][MustWait => pc' # "idle"]_vars

\* C10 witness: after a grab() returned a frame, the next one has read the
\* empty queue and polled the silent channel and is reading the queue again.
C10_Witness ==
    /\ MustWait
    /\ pc = "recv"
    /\ session = "started"
    /\ delivered # <<>>
    /\ ret = Ret("grab", "frame", "none")


\* ------------------------------------------------------------------ C11
\* C11: in a run where the caller has called stop() at most once, session.Close()
\* has been invoked at most once in total, the stop() inside grab() included,
\* and it is never invoked on a pipeline that is already stopped.
C11_ClosedOnce ==
    [][stopCalls' <= 1 => /\ closeCalls' <= 1
                          /\ (stopped => closeCalls' = closeCalls)]_vars


\* ------------------------------------------------------------------ C12
\* The two channels under every interleaving, with a source that keeps its size
\* and client box.  The caller's thread keeps running: grab_next's loop has no
\* blocking call, so a grab that is inside the loop takes its next try_recv or
\* poll.
NextLive ==
    \/ Produce
    \/ TrySend
    \/ SenderDrop
    \/ SignalClose
    \/ SignalDrop
    \/ CallStart
    \/ CallStop
    \/ GrabCall
    \/ Recv
    \/ Poll

SpecLive == Init /\ [][NextLive]_vars /\ WF_vars(Recv) /\ WF_vars(Poll)

\* C12: with the caller's thread scheduled fairly, a grab() inside its loop
\* returns once a frame is in the queue, the close notification is pending or
\* the closure channel's sender is gone (or the queue's sender is gone); it can
\* loop forever only while the queue stays empty and connected and the closure
\* channel stays silent and connected.
C12_GrabReturns ==
    (pc # "idle" /\ ~MustWait) ~> (pc = "idle")

C12_Witness ==
    /\ pc = "poll"
    /\ ~stopped
    /\ frame_source.items # <<>>
    /\ done_signal.msgs > 0


\* ------------------------------------------------------------------ C13
\* C13: the closure channel is read only by a grab() whose queue read just found
\* the queue empty; a grab() of a running pipeline whose queue holds a frame
\* takes the head frame, leaves the closure channel and the stopped flag alone
\* and returns that frame (or the error of processing it), never "no frame",
\* also when the close notification is already pending.
C13_PollAfterEmpty ==
    [][/\ (pc' = "poll" /\ pc # "poll") =>
              (pc = "recv" /\ frame_source.items = <<>> /\ frame_source.connected)
       /\ done_signal'.msgs < done_signal.msgs => pc = "poll"
       /\ (pc = "recv" /\ pc' # "recv" /\ frame_source.items # <<>>) =>
              /\ consumed' = Append(consumed, Head(frame_source.items)[1].seq)
              /\ frame_source'.items = Tail(frame_source.items)
              /\ pc' = "idle"
              /\ ret' \in {Ret("grab", "frame", "none"), CaptureErr}
              /\ ret'.val = "frame" =>
                     /\ Len(delivered') = Len(delivered) + 1
                     /\ delivered'[Len(delivered')].seq = Head(frame_source.items)[1].seq
              /\ UNCHANGED <<done_signal, stopped, session, closeCalls>>]_vars

C13_Witness ==
    /\ pc = "recv"
    /\ firedAtCall
    /\ done_signal.msgs > 0
    /\ frame_source.items # <<>>
    /\ ret = Ret("grab", "frame", "none")


\* ------------------------------------------------------------------ C14
\* C14 as stated: while a pipeline operation is in progress the handler
\* accesses nothing of the pipeline, the frame pool included: its steps leave
\* session, frame pool, staging texture, clip rectangle, content size and
\* stopped flag as they are.
C14_Original ==
    [][((cb' # cb \/ nextSeq' # nextSeq) /\ pc # "idle") => UNCHANGED pipeline]_vars

\* C14: the handler takes its frame out of the frame pool (TryGetNextFrame),
\* also while grab() is in progress, and otherwise touches only the queue's
\* write end: it never changes session, staging texture, clip rectangle,
\* content size, stopped flag, the pool's size or open/closed state, or the
\* closure channel, and its try_send changes nothing but the queue.
C14_HandlerFootprint ==
    [][(cb' # cb \/ nextSeq' # nextSeq) =>
          /\ UNCHANGED <<stopped, session, staging_texture, capture_box, content_size,
                         done_signal, caller, ret>>
          /\ frame_pool'.size = frame_pool.size
          /\ frame_pool'.closed = frame_pool.closed
          /\ IF cb.pc = "idle"
             THEN frame_pool'.taken = frame_pool.taken + 1 /\ UNCHANGED frame_source
             ELSE UNCHANGED frame_pool]_vars

C14_Witness ==
    /\ pc = "poll"
    /\ cb.pc = "send"
    /\ frame_pool.taken = 1
    /\ frame_source.items = <<>>
    /\ srcSize # frame_pool.size


\* ------------------------------------------------------------------ C15
\* C15: a grab() whose dequeued frame has the remembered content size, with a
\* staging texture present, leaves staging texture, clip rectangle, frame pool
\* and remembered content size unchanged, whatever the source reports by now;
\* a grab() that returns a frame whose content size differs from the remembered
\* one, or with no staging texture yet, has recreated the pool at the source's
\* size, re-read the clip rectangle and replaced the staging texture.
C15_ResizeIff ==
    [][(pc = "recv" /\ pc' # "recv" /\ frame_source.items # <<>>) =>
          LET f == Head(frame_source.items)[1]
              same == f.size = content_size /\ staging_texture # None
          IN /\ same => UNCHANGED <<staging_texture, capture_box, frame_pool,
                                    content_size>>
             /\ (~same /\ ret'.val = "frame") =>
                    /\ frame_pool' = [frame_pool EXCEPT !.size = srcSize]
                    /\ capture_box' = srcBox
                    /\ staging_texture' = Some(NewStaging(srcBox))
                    /\ content_size' = f.size]_vars

C15_Witness ==
    /\ pc = "idle"
    /\ ret = Ret("grab", "frame", "none")
    /\ Len(delivered) = 2
    /\ delivered[2].tex = delivered[1].tex
    /\ delivered[2].tex = Some(NewStaging(capture_box))
    /\ capture_box # srcBox


\* ------------------------------------------------------------------ C16
\* C16: grab() on a stopped pipeline returns "no frame" without error and
\* changes nothing else: it does not enter the loop, so it reads neither the
\* queue nor the closure channel, closes nothing again, and leaves staging
\* texture, clip rectangle and content size as they are.
C16_StoppedGrabNoEffect ==
    [][(pc = "idle" /\ stopped) =>
          /\ pc' = "idle"
          /\ (ret'.op = "grab" /\ ret' # ret) =>
                 /\ ret' = GrabNone
                 /\ UNCHANGED <<pipeline, channels, source, nextSeq, cb, firedAtCall,
                                history>>]_vars

C16_Witness ==
    /\ stopped
    /\ pc = "idle"
    /\ ret = GrabNone
    /\ stopCalls = 1
    /\ frame_source.items # <<>>
    /\ done_signal.msgs > 0
    /\ staging_texture # None


\* ------------------------------------------------------------------ C17
\* C17: whenever grab() gets as far as the region copy (here: it returns the
\* frame), the staging texture has the width and height of the clip rectangle
\* stored in capture_box, the one the copy uses.
C17_CopyFitsTexture ==
    [][(pc = "recv" /\ ret' = Ret("grab", "frame", "none") /\ delivered' # delivered) =>
          staging_texture' = Some(NewStaging(capture_box'))]_vars


\* ------------------------------------------------------------------ C18
\* C18: whenever the stopped flag is set and no operation is in progress, the
\* session and the frame pool have both been closed, also after a stop() that
\* returned an error.
C18_StoppedMeansClosed ==
    (stopped /\ pc = "idle") => (session = "closed" /\ frame_pool.closed)

\* ------------------------------------------------------------------ C19
\* C19: when a grab() of a running pipeline stops because its poll found the
\* close notification, the queue holds no frame at that moment.
C19_NothingLeftBehind ==
    [][(pc = "poll" /\ pc' = "idle" /\ done_signal'.msgs < done_signal.msgs) =>
          frame_source.items = <<>>]_vars


\* ------------------------------------------------------------------ C20
\* A sequence of production numbers is strictly increasing.
Increasing(q) == \A i, j \in 1..Len(q) : i < j => q[i] < q[j]

\* Every frame grab() returned was taken from the queue, each frame at most
\* once and in order; a frame taken from the queue is no longer in it.
ConsumedOnce ==
    /\ Increasing(consumed)
    /\ Increasing(DeliveredSeqs)
    /\ \A i \in 1..Len(delivered) : \E j \in 1..Len(consumed) : consumed[j] = delivered[i].seq
    /\ \A i \in 1..Len(QueueSeqs) : \A j \in 1..Len(consumed) : QueueSeqs[i] # consumed[j]

\* C20: a grab() that dequeued a frame has consumed it whether or not it then
\* fails: the queue afterwards is the queue before without its head; a failed
\* grab() delivers nothing and its frame is never returned later; a grab()
\* that returns a frame returns the head of the queue it read; every enqueued
\* frame is returned by at most one grab().
C20_FailedGrabConsumes ==
    /\ []ConsumedOnce
    /\ [][(pc = "recv" /\ pc' = "idle" /\ frame_source.items # <<>>) =>
             LET f == Head(frame_source.items)[1]
             IN /\ frame_source'.items = Tail(frame_source.items)
                /\ consumed' = Append(consumed, f.seq)
                /\ ret' = CaptureErr => delivered' = delivered
                /\ ret' # CaptureErr =>
                       delivered' = Append(delivered, [seq |-> f.seq,
                                                       tex |-> staging_texture'])]_vars

C20_Witness ==
    /\ pc = "idle"
    /\ ret = Ret("grab", "frame", "none")
    /\ consumed = <<1, 2>>
    /\ DeliveredSeqs = <<2>>
    /\ frame_source.items = <<>>

====
